---- MODULE Spec2Model ----
(***************************************************************************)
(* Hint-escalation conversation state machine of SmartDoc_SSP.             *)
(*                                                                         *)
(* The state is the chat collection (one document per conversation), the   *)
(* wall clock read by datetime.now, the uuid4 source, and the record of    *)
(* the /chat responses returned so far.  One /chat request is              *)
(*   generate_qna_content  (count prior hints, cap, model call, buttons)   *)
(*   save_qna_to_chat      (build the interaction and the qna entry)       *)
(*   save_chat_conversation_with_pathway (create / append / escalate).     *)
(***************************************************************************)
EXTENDS Integers, Sequences, FiniteSets, TLC

\* ------------------------------------------------------------------ bounds
MaxRequests == 3

\* --------------------------------------------------------- program constants
HINT_CAP == 2

\* models.py ResponseLevel; the field is Optional, so a request may carry null
ResponseLevel == {"Hint", "Steps", "Worked Solution", "Answer"}
None == "None"
RequestLevels == ResponseLevel \cup {None}

\* ------------------------------------------------------------- input sets
\* R1 is the room whose requests range over every step and level; R2 is a
\* second room, there to tell conversations of different rooms apart, and
\* its requests are for DefaultStep at the default level.
Rooms == {"R1", "R2"}
Users == {"U1"}
Steps == {3, 4}
DefaultStep == 3
DefaultLevel == "Hint"

\* the slide text the client sends with a step (extractedContent)
StepHasContent(step) == step = 3
\* steps of the other slides in structuredData (relevant_step_ids)
OtherSteps(step) == IF step = 3 THEN <<4>> ELSE <<3>>

\* What the model call can do.  kind:
\*   "raise"   the client call raises (quota, timeout, cancellation)
\*   "empty"   the completion is the empty string
\*   "badjson" json.loads raises
\*   "nondict" json.loads yields a list / string / number
\*   "object"  json.loads yields an object; its fields are the model's
\* The objects are: one carrying an answer and a step, for each step of the
\* deck (the request's step or another one), and the object {} that has
\* neither key (step NoStep, has_answer FALSE).
NoStep == 0
FailKinds == {"raise", "empty", "badjson", "nondict"}
LLMObjects ==
    { [kind |-> "object", step |-> s, has_answer |-> TRUE] : s \in Steps }
    \cup { [kind |-> "object", step |-> NoStep, has_answer |-> FALSE] }
LLMFailures == { [kind |-> k, step |-> NoStep, has_answer |-> FALSE] : k \in FailKinds }

VARIABLES
    store,      \* chat_collection: sequence of conversation documents, in insertion order
    clock,      \* number of datetime.now readings so far
    uuids,      \* number of uuid4 values drawn so far
    responses,  \* the /chat calls handled so far, in order: each QnAResponse with
                \* what its handler read and wrote
    calls,      \* the /chat calls in flight, one per worker: where each is in
                \* its handler and what it has read so far
    lookup,     \* the last conversation lookup and its ConversationResponse
    matcher     \* the last call of find_step_from_text: arguments and result

vars == <<store, clock, uuids, responses, calls, lookup, matcher>>

\* ------------------------------------------------------------ sequence helpers
RECURSIVE SumSeq(_)
SumSeq(s) == IF s = <<>> THEN 0 ELSE Head(s) + SumSeq(Tail(s))

Range(s) == { s[i] : i \in DOMAIN s }

\* ------------------------------------------------------------ data shapes
\* chatbot_interaction  {} (an empty dict, falsy in Python)
EmptyInteraction == [empty |-> TRUE]
\* find_one found nothing
NoDoc == [found |-> FALSE]

\* q.get("chatbot_interaction", {}).get("response_level")
LevelOf(interaction) ==
    IF interaction = EmptyInteraction THEN None ELSE interaction.response_level

\* ------------------------------------------------- response-level policy
\* _next_buttons offering Show Steps again at level Worked Solution
next_buttons_reoffer(response_level, hint_count) ==
    IF response_level = "Hint" THEN
        IF hint_count >= HINT_CAP
        THEN [buttons_displayed |-> <<"Show Steps", "Worked Solution", "Just the Answer">>,
              next_options_removed |-> <<"More Hint">>]
        ELSE [buttons_displayed |-> <<"More Hint", "Show Steps", "Worked Solution", "Just the Answer">>,
              next_options_removed |-> <<>>]
    ELSE IF response_level = "Steps" THEN
        [buttons_displayed |-> <<"Worked Solution", "Just the Answer">>,
         next_options_removed |-> <<"More Hint">>]
    ELSE IF response_level = "Worked Solution" THEN
        [buttons_displayed |-> <<"Show Steps", "Just the Answer">>,
         next_options_removed |-> <<"More Hint">>]
    ELSE IF response_level = "Answer" THEN
        [buttons_displayed |-> <<>>,
         next_options_removed |-> <<"More Hint", "Show Steps", "Worked Solution">>]
    ELSE
        [buttons_displayed |-> <<"Show Steps", "Worked Solution", "Just the Answer">>,
         next_options_removed |-> <<"More Hint">>]

\* _next_buttons with the cap compared by > instead of >=
next_buttons_gt(response_level, hint_count) ==
    IF response_level = "Hint" THEN
        IF hint_count > HINT_CAP
        THEN [buttons_displayed |-> <<"Show Steps", "Worked Solution", "Just the Answer">>,
              next_options_removed |-> <<"More Hint">>]
        ELSE [buttons_displayed |-> <<"More Hint", "Show Steps", "Worked Solution", "Just the Answer">>,
              next_options_removed |-> <<>>]
    ELSE IF response_level = "Steps" THEN
        [buttons_displayed |-> <<"Worked Solution", "Just the Answer">>,
         next_options_removed |-> <<"More Hint">>]
    ELSE IF response_level = "Worked Solution" THEN
        [buttons_displayed |-> <<"Just the Answer">>,
         next_options_removed |-> <<"More Hint", "Show Steps">>]
    ELSE IF response_level = "Answer" THEN
        [buttons_displayed |-> <<>>,
         next_options_removed |-> <<"More Hint", "Show Steps", "Worked Solution">>]
    ELSE
        [buttons_displayed |-> <<"Show Steps", "Worked Solution", "Just the Answer">>,
         next_options_removed |-> <<"More Hint">>]

\* QuizGenerator._next_buttons
_next_buttons(response_level, hint_count) ==
    IF response_level = "Hint" THEN
        IF hint_count >= HINT_CAP
        THEN [buttons_displayed |-> <<"Show Steps", "Worked Solution", "Just the Answer">>,
              next_options_removed |-> <<"More Hint">>]
        ELSE [buttons_displayed |-> <<"More Hint", "Show Steps", "Worked Solution", "Just the Answer">>,
              next_options_removed |-> <<>>]
    ELSE IF response_level = "Steps" THEN
        [buttons_displayed |-> <<"Worked Solution", "Just the Answer">>,
         next_options_removed |-> <<"More Hint">>]
    ELSE IF response_level = "Worked Solution" THEN
        [buttons_displayed |-> <<"Just the Answer">>,
         next_options_removed |-> <<"More Hint", "Show Steps">>]
    ELSE IF response_level = "Answer" THEN
        [buttons_displayed |-> <<>>,
         next_options_removed |-> <<"More Hint", "Show Steps", "Worked Solution">>]
    ELSE
        [buttons_displayed |-> <<"Show Steps", "Worked Solution", "Just the Answer">>,
         next_options_removed |-> <<"More Hint">>]

\* chat_collection.find_one({"room_id", "user_id", "deleted": {"$ne": True}}):
\* the first matching document in natural order, or NoDoc
find_one(st, room_id, user_id) ==
    LET hits == { i \in DOMAIN st :
                    /\ st[i].room_id = room_id
                    /\ st[i].user_id = user_id
                    /\ st[i].deleted # TRUE }
    IN  IF hits = {} THEN NoDoc
        ELSE st[CHOOSE i \in hits : \A j \in hits : i <= j]

\* the counter looking at the active interaction only
HintsOfEntryActiveOnly(q) ==
    IF LevelOf(q.chatbot_interaction) = "Hint" THEN 1 ELSE 0

\* hints held by one qna entry: the active interaction plus its history
HintsOfEntry(q) ==
    (IF LevelOf(q.chatbot_interaction) = "Hint" THEN 1 ELSE 0)
    + Cardinality({ k \in DOMAIN q.escalation_history :
                      q.escalation_history[k].response_level = "Hint" })

\* QuizGenerator._count_prior_hints_for_step
_count_prior_hints_for_step(st, room_id, user_id, step) ==
    LET doc == find_one(st, room_id, user_id)
    IN  IF doc = NoDoc THEN 0
        ELSE SumSeq([ i \in DOMAIN doc.qna_list |->
                        IF doc.qna_list[i].step = step /\ ~doc.qna_list[i].deleted
                        THEN HintsOfEntry(doc.qna_list[i]) ELSE 0 ])

\* the hint cap compared by > instead of >=
EffectiveLevelOffByOne(response_level, prior_hints) ==
    IF response_level = "Hint" /\ prior_hints > HINT_CAP THEN "Steps" ELSE response_level

\* generate_qna_content, lines 108-110: the hint cap
EffectiveLevel(response_level, prior_hints) ==
    IF response_level = "Hint" /\ prior_hints >= HINT_CAP THEN "Steps" ELSE response_level

\* the count handed to _next_buttons without the response being served
HintCountAfterPrior(response_level, prior_hints) == prior_hints

\* generate_qna_content, line 234: the count handed to _next_buttons
HintCountAfter(response_level, prior_hints) ==
    prior_hints + (IF response_level = "Hint" THEN 1 ELSE 0)

\* ------------------------------------------------- generate_qna_content
\* What generate_qna_content returns for a request and a model outcome.
\* error = "" stands for a dict without an "error" key.  The fields the
\* model writes into its JSON (step, answer) are the model's; step_name,
\* relevant_info and relevant_steps are taken as the model echoing the
\* prompt.  n numbers the request: message and answer texts are n.
ErrorOf(llm) ==
    IF llm.kind = "empty" THEN "LLM returned empty output"
    ELSE IF llm.kind = "badjson" THEN "LLM did not return valid JSON"
    ELSE IF llm.kind \in {"raise", "nondict"} THEN "Failed to generate Q&A content"
    ELSE ""

generate_qna_content(st, req, llm, n) ==
    LET prior_hints    == _count_prior_hints_for_step(st, req.room_id, req.user_id, req.step)
        response_level == EffectiveLevel(req.response_level, prior_hints)
        buttons        == _next_buttons(response_level, HintCountAfter(response_level, prior_hints))
    IN  [ error          |-> ErrorOf(llm),
          prior_hints    |-> prior_hints,
          has_step       |-> llm.kind = "object" /\ llm.step # NoStep,
          step           |-> llm.step,
          step_name      |-> req.step,
          has_answer     |-> llm.kind = "object" /\ llm.has_answer,
          answer         |-> n,
          relevant_info  |-> n,
          relevant_steps |-> OtherSteps(req.step),
          _pathway       |-> [ response_level       |-> response_level,
                               buttons_displayed    |-> buttons.buttons_displayed,
                               next_options_removed |-> buttons.next_options_removed ],
          _context_used  |-> [ step_context_included |-> StepHasContent(req.step),
                               student_code_context  |-> None ] ]

\* ----------------------------------------------------- save_qna_to_chat
\* lines 264-271
ChatbotInteraction(qna_data, timestamp) ==
    [ timestamp            |-> timestamp,
      response_level       |-> qna_data._pathway.response_level,
      context_used         |-> qna_data._context_used,
      llm_response         |-> IF qna_data.has_answer THEN qna_data.answer ELSE 0,
      buttons_displayed    |-> qna_data._pathway.buttons_displayed,
      next_options_removed |-> qna_data._pathway.next_options_removed ]

\* lines 273-282; qna_data.get("step", 0)
QnaEntry(qna_data, req, timestamp) ==
    [ step               |-> IF qna_data.has_step THEN qna_data.step ELSE 0,
      step_name          |-> qna_data.step_name,
      student_query      |-> req.message,
      chatbot_interaction |-> ChatbotInteraction(qna_data, timestamp),
      escalation_history |-> <<>>,
      relevant_info      |-> qna_data.relevant_info,
      relevant_steps     |-> qna_data.relevant_steps,
      deleted            |-> FALSE ]

\* lines 284-291
ConversationData(qna_data, req, timestamp) ==
    [ room_id   |-> req.room_id,
      user_id   |-> req.user_id,
      qna_entry |-> QnaEntry(qna_data, req, timestamp) ]

\* --------------------------------- save_chat_conversation_with_pathway
\* the first non-deleted entry whatever its step
FoundIdxAnyStep(qna_list, step) ==
    LET hits == { i \in DOMAIN qna_list : ~qna_list[i].deleted }
    IN  IF hits = {} THEN 0 ELSE CHOOSE i \in hits : \A j \in hits : i <= j

\* lines 34-38: index of the first non-deleted entry of the step, 0 for None
FoundIdx(qna_list, step) ==
    LET hits == { i \in DOMAIN qna_list :
                    ~qna_list[i].deleted /\ qna_list[i].step = step }
    IN  IF hits = {} THEN 0 ELSE CHOOSE i \in hits : \A j \in hits : i <= j

\* update_one({"_id": id}, ...) matches the document with that _id, if any
Matched(st, id) == { i \in DOMAIN st : st[i]._id = id }

\* update_one({"_id": id}, update): update is the document after the update
\* as a function of the matched document's position
UpdateOne(st, id, update) ==
    IF Matched(st, id) = {} THEN st
    ELSE LET i == CHOOSE j \in Matched(st, id) : TRUE
         IN  [st EXCEPT ![i] = update[i]]

\* the "$push" of the entry without the "$set" of last_updated
PushQnaEntryOnly(st, id, qna_entry, now) ==
    UpdateOne(st, id,
        [ i \in Matched(st, id) |->
            [st[i] EXCEPT !.qna_list = Append(@, qna_entry)] ])

\* lines 42-45: {"$push": {"qna_list": qna_entry}, "$set": {"last_updated": now}}
PushQnaEntry(st, id, qna_entry, now) ==
    UpdateOne(st, id,
        [ i \in Matched(st, id) |->
            [st[i] EXCEPT !.qna_list = Append(@, qna_entry),
                          !.last_updated = now] ])

\* the item pushed to the history stamped with no time
HistoryItemUnstamped(prior_interaction) ==
    [ timestamp      |-> 0,
      response_level |-> prior_interaction.response_level,
      llm_response   |-> prior_interaction.llm_response ]

\* lines 55-59: what is pushed to escalation_history
HistoryItem(prior_interaction) ==
    [ timestamp      |-> prior_interaction.timestamp,
      response_level |-> prior_interaction.response_level,
      llm_response   |-> prior_interaction.llm_response ]

\* the "$set" replacing the display name of the entry as well
SetActiveWithName(q, qna_entry) ==
    [q EXCEPT !.step_name           = qna_entry.step_name,
              !.student_query       = qna_entry.student_query,
              !.chatbot_interaction = qna_entry.chatbot_interaction,
              !.relevant_info       = qna_entry.relevant_info,
              !.relevant_steps      = qna_entry.relevant_steps]

\* lines 60-66 and 74-80: the "$set" of the active fields of qna_list[idx]
SetActive(q, qna_entry) ==
    [q EXCEPT !.student_query       = qna_entry.student_query,
              !.chatbot_interaction = qna_entry.chatbot_interaction,
              !.relevant_info       = qna_entry.relevant_info,
              !.relevant_steps      = qna_entry.relevant_steps]

\* the escalation with "$set" of the history to the prior interaction
\* instead of "$push"
EscalateSetHistory(st, id, idx, prior_interaction, qna_entry, now) ==
    UpdateOne(st, id,
        [ i \in Matched(st, id) |->
            IF idx \in DOMAIN st[i].qna_list
            THEN [st[i] EXCEPT
                    !.qna_list[idx] =
                        SetActive([@ EXCEPT !.escalation_history =
                                       <<HistoryItem(prior_interaction)>>],
                                  qna_entry),
                    !.last_updated = now]
            ELSE st[i] ])

\* the escalation without the "$push" to the history
EscalateNoPush(st, id, idx, prior_interaction, qna_entry, now) ==
    UpdateOne(st, id,
        [ i \in Matched(st, id) |->
            IF idx \in DOMAIN st[i].qna_list
            THEN [st[i] EXCEPT !.qna_list[idx] = SetActive(@, qna_entry),
                               !.last_updated = now]
            ELSE st[i] ])

\* lines 52-68: one update_one with "$push" to the history and "$set"
Escalate(st, id, idx, prior_interaction, qna_entry, now) ==
    UpdateOne(st, id,
        [ i \in Matched(st, id) |->
            IF idx \in DOMAIN st[i].qna_list
            THEN [st[i] EXCEPT
                    !.qna_list[idx] =
                        SetActive([@ EXCEPT !.escalation_history =
                                       Append(@, HistoryItem(prior_interaction))],
                                  qna_entry),
                    !.last_updated = now]
            ELSE st[i] ])

\* lines 71-82: the prior interaction was empty, "$set" only
SetOnly(st, id, idx, qna_entry, now) ==
    UpdateOne(st, id,
        [ i \in Matched(st, id) |->
            IF idx \in DOMAIN st[i].qna_list
            THEN [st[i] EXCEPT !.qna_list[idx] = SetActive(@, qna_entry),
                               !.last_updated = now]
            ELSE st[i] ])

\* the new document under one conversation id for all
NewDocumentSameId(st, conversation_data, now, uuid) ==
    [ _id             |-> Len(st) + 1,
      room_id         |-> conversation_data.room_id,
      user_id         |-> conversation_data.user_id,
      conversation_id |-> <<"uuid4", 1>>,
      started_at      |-> now,
      qna_list        |-> <<conversation_data.qna_entry>>,
      last_updated    |-> now,
      deleted         |-> FALSE ]

\* lines 86-100: the new document; uuid is the uuid4 drawn
NewDocument(st, conversation_data, now, uuid) ==
    [ _id             |-> Len(st) + 1,
      room_id         |-> conversation_data.room_id,
      user_id         |-> conversation_data.user_id,
      conversation_id |-> uuid,
      started_at      |-> now,
      qna_list        |-> <<conversation_data.qna_entry>>,
      last_updated    |-> now,
      deleted         |-> FALSE ]

\* the merge appending a new entry whenever the conversation exists
MergeWriteAppendOnly(st, existing, conversation_data, now, uuid) ==
    IF existing # NoDoc
    THEN PushQnaEntry(st, existing._id, conversation_data.qna_entry, now)
    ELSE Append(st, NewDocument(st, conversation_data, now, uuid))

\* lines 29-101 after the find_one: the write decided from the document
\* `existing` that find_one returned, applied to the collection st
MergeWrite(st, existing, conversation_data, now, uuid) ==
    LET qna_entry == conversation_data.qna_entry
    IN  IF existing # NoDoc THEN
            LET found_idx == FoundIdx(existing.qna_list, qna_entry.step)
            IN  IF found_idx = 0
                THEN PushQnaEntry(st, existing._id, qna_entry, now)
                ELSE LET prior_interaction == existing.qna_list[found_idx].chatbot_interaction
                     IN  IF prior_interaction # EmptyInteraction
                         THEN Escalate(st, existing._id, found_idx, prior_interaction, qna_entry, now)
                         ELSE SetOnly(st, existing._id, found_idx, qna_entry, now)
        ELSE Append(st, NewDocument(st, conversation_data, now, uuid))

\* the merge returning the uuid it drew, whether or not it created a document
MergeReturnFresh(existing, uuid) == uuid

\* the conversation id the merge returns
MergeReturn(existing, uuid) ==
    IF existing # NoDoc THEN existing.conversation_id ELSE uuid

\* save_chat_conversation_with_pathway run without interruption
save_chat_conversation_with_pathway(st, conversation_data, now, uuid) ==
    LET existing == find_one(st, conversation_data.room_id, conversation_data.user_id)
    IN  [ store           |-> MergeWrite(st, existing, conversation_data, now, uuid),
          conversation_id |-> MergeReturn(existing, uuid) ]

\* ------------------------------------------------------------ /chat
\* the requests the n-th /chat call may carry (QnARequest); its message is n
Requests(n) ==
    { [ room_id |-> r, user_id |-> u, step |-> s, message |-> n, response_level |-> l ] :
        r \in {"R1"}, u \in Users, s \in Steps, l \in RequestLevels }
    \cup
    { [ room_id |-> r, user_id |-> u, step |-> DefaultStep, message |-> n,
        response_level |-> DefaultLevel ] : r \in Rooms, u \in Users }

NoPathway == [ response_level |-> None, buttons_displayed |-> <<>>, next_options_removed |-> <<>> ]
NoRequest == [ room_id |-> "", user_id |-> "", step |-> 0, message |-> 0, response_level |-> None ]
NoConversation == <<"uuid4", 0>>

\* the handler without the check of line 169
HasErrorNever(qna_content) == FALSE

\* app.py line 169: "error" in qna_content
HasError(qna_content) == qna_content.error # ""

\* QnAResponse(success=False, error=...): app.py lines 169-173 and 183-187.
\* llm is what the model call did.
FailureResponse(llm, error) ==
    [ success |-> FALSE, error |-> error, llm |-> llm.kind, request |-> NoRequest,
      prior_hints |-> 0, _pathway |-> NoPathway, qna_step |-> NoStep,
      conversation_id |-> NoConversation ]

\* QnAResponse(success=True, qna_content=..., message=...): app.py lines 178-182.
\* prior_hints is the count generate_qna_content read and qna_step the step of
\* the entry save_qna_to_chat handed to the merge (neither is part of the reply).
SuccessResponse(llm, req, qna_data, qna_entry, conversation_id) ==
    [ success |-> TRUE, error |-> "", llm |-> llm.kind, request |-> req,
      prior_hints |-> qna_data.prior_hints, _pathway |-> qna_data._pathway,
      qna_step |-> qna_entry.step, conversation_id |-> conversation_id ]

\* the workers that handle /chat calls side by side
Workers == {1, 2}
\* a worker with no call in flight
IdleCall == [ pc |-> "idle" ]
\* no lookup made yet
NoLookup == [ by |-> "none" ]
\* find_step_from_text not called yet
NoMatch == [ called |-> FALSE ]

Init ==
    /\ store = <<>>
    /\ clock = 0
    /\ uuids = 0
    /\ responses = <<>>
    /\ calls = [ w \in Workers |-> IdleCall ]
    /\ lookup = NoLookup
    /\ matcher = NoMatch

\* app.py generate_qna_content, lines 166-173: generate_qna_content returned
\* an error, the handler returns without saving
ChatModelError(req, llm) ==
    /\ Len(responses) < MaxRequests
    /\ LET qna_content == generate_qna_content(store, req, llm, Len(responses) + 1)
       IN  /\ HasError(qna_content)
           /\ responses' = Append(responses, FailureResponse(llm, qna_content.error))
    /\ UNCHANGED <<store, clock, uuids, calls, lookup, matcher>>

\* app.py generate_qna_content, lines 166-182: content generated and saved.
\* datetime.now is read in save_qna_to_chat and again in the merge.
ChatServed(req, llm) ==
    /\ Len(responses) < MaxRequests
    /\ LET qna_content == generate_qna_content(store, req, llm, Len(responses) + 1)
           data        == ConversationData(qna_content, req, clock + 1)
           uuid        == <<"uuid4", uuids + 1>>
           saved       == save_chat_conversation_with_pathway(store, data, clock + 2, uuid)
       IN  /\ ~HasError(qna_content)
           /\ store' = saved.store
           /\ uuids' = IF saved.conversation_id = uuid THEN uuids + 1 ELSE uuids
           /\ responses' = Append(responses,
                  SuccessResponse(llm, req, qna_content, data.qna_entry, saved.conversation_id))
    /\ clock' = clock + 2
    /\ UNCHANGED <<calls, lookup, matcher>>

LLMOutcomes == LLMObjects \cup LLMFailures

\* The failure reply does not depend on the request (quiz_generator.py lines
\* 227-232 and 245-246), so one request stands for all in ChatModelError.
AnyRequest(n) == CHOOSE req \in Requests(n) : TRUE

\* ------------------------------------------------- request validation
\* The JSON body of a /chat call as far as QnARequest validates it: the step
\* is a JSON integer or a text that is no number, room_id and user_id are a
\* string or left out, response_level is a string.
JsonSteps ==
    { [json |-> "integer", value |-> s] : s \in Steps }
    \cup { [json |-> "text", value |-> NoStep] }
BodyLevels == {"Hint", "More Hint"}
Bodies(n) ==
    { [ room_id |-> r, user_id |-> u, step |-> s, message |-> n, response_level |-> l ] :
        r \in {"R1", None}, u \in Users \cup {None}, s \in JsonSteps, l \in BodyLevels }

\* pydantic's validation of QnARequest: step: int, response_level:
\* Optional[Literal[...]]; room_id and user_id are Optional[str] = None
Validates(body) ==
    /\ body.step.json = "integer"
    /\ body.response_level \in ResponseLevel \cup {None}

\* the QnARequest built from a valid body; room_id and user_id left out are None
QnARequest(body) ==
    [ room_id |-> body.room_id, user_id |-> body.user_id, step |-> body.step.value,
      message |-> body.message, response_level |-> body.response_level ]

\* the 422 reply FastAPI sends for a body that fails validation; request
\* holds the body as sent
ValidationResponse(body) ==
    [ success |-> FALSE, error |-> "422", llm |-> "not called", request |-> body,
      prior_hints |-> 0, _pathway |-> NoPathway, qna_step |-> NoStep,
      conversation_id |-> NoConversation ]

\* @app.post("/chat") with request: QnARequest: a body that fails validation
\* is answered by FastAPI, generate_qna_content is not entered
ChatRejected(body) ==
    /\ Len(responses) < MaxRequests
    /\ ~Validates(body)
    /\ responses' = Append(responses, ValidationResponse(body))
    /\ UNCHANGED <<store, clock, uuids, calls, lookup, matcher>>

\* a valid body is handled; the model answers with an object for the step asked
ChatValidated(body) ==
    /\ Validates(body)
    /\ ChatServed(QnARequest(body), [kind |-> "object", step |-> body.step.value, has_answer |-> TRUE])

NextInput ==
    \/ \E body \in Bodies(Len(responses) + 1) : ChatRejected(body)
    \/ \E body \in Bodies(Len(responses) + 1) : ChatValidated(body)

SpecInput == Init /\ [][NextInput]_vars

Next ==
    \/ \E req \in Requests(Len(responses) + 1) : \E llm \in LLMOutcomes :
          ChatServed(req, llm)
    \/ \E llm \in LLMOutcomes :
          ChatModelError(AnyRequest(Len(responses) + 1), llm)

Spec == Init /\ [][Next]_vars

\* -------------------------------------------------- find_step_from_text
\* A text is the sequence of its words, the whitespace between and around
\* them left out: normalize strips and collapses exactly that whitespace,
\* and split() then yields the words. Words differ in letters or in case.
Words == {"a", "A", "b", "c"}
MaxWords == 3
MaxCandidates == 2
SeqsUpTo(S, n) == UNION { [1..k -> S] : k \in 0..n }
Texts == SeqsUpTo(Words, MaxWords)

\* the paragraphs of a deck, para_points items {"step", "text"}
ParaPoints ==
    { [step |-> 1, text |-> <<"a", "b", "c">>],
      [step |-> 2, text |-> <<"A">>],
      [step |-> 3, text |-> <<"b", "a">>],
      [step |-> 4, text |-> <<>>],
      [step |-> 5, text |-> <<"c", "c">>] }

\* str.lower on a word
lower(w) == IF w = "A" THEN "a" ELSE w

\* normalize: re.sub(r"\s+", " ", text.strip().lower())
normalize(text) == [ i \in DOMAIN text |-> lower(text[i]) ]

\* set(normalize(text).split())
split_set(text) == Range(normalize(text))

\* score = common / total if total > 0 else 0, as the fraction <<num, den>>
Score(target, src) ==
    LET common == Cardinality(split_set(target) \cap split_set(src))
        total  == Cardinality(split_set(src))
    IN  IF total > 0 THEN <<common, total>> ELSE <<0, 1>>

\* a > b for fractions with positive denominators
Greater(a, b) == a[1] * b[2] > b[1] * a[2]

\* the test of line 68 with >= for the first comparison
ReplacesBestOnTie(score, best_score) ==
    /\ ~Greater(best_score, score)
    /\ Greater(score, <<1, 2>>)

\* line 68: score > best_score and score > 0.5
ReplacesBest(score, best_score) ==
    /\ Greater(score, best_score)
    /\ Greater(score, <<1, 2>>)

\* the loop of lines 62-70 from candidate i on
RECURSIVE ScanCandidates(_, _, _, _, _)
ScanCandidates(source_text, para_points, i, best_score, best_step) ==
    IF i > Len(para_points) THEN best_step
    ELSE LET score == Score(source_text, para_points[i].text)
         IN  IF ReplacesBest(score, best_score)
             THEN ScanCandidates(source_text, para_points, i + 1, score, para_points[i].step)
             ELSE ScanCandidates(source_text, para_points, i + 1, best_score, best_step)

find_step_from_text(source_text, para_points) ==
    ScanCandidates(source_text, para_points, 1, <<0, 1>>,
                   IF Len(para_points) > 0 THEN para_points[1].step ELSE 1)

\* the arguments find_step_from_text may be called with
InitMatcher ==
    /\ store = <<>>
    /\ clock = 0
    /\ uuids = 0
    /\ responses = <<>>
    /\ calls = [ w \in Workers |-> IdleCall ]
    /\ lookup = NoLookup
    /\ matcher \in { [ called |-> FALSE, source_text |-> t, para_points |-> ps, best_step |-> 0 ] :
                       t \in Texts, ps \in SeqsUpTo(ParaPoints, MaxCandidates) }

FindStep ==
    /\ ~matcher.called
    /\ matcher' = [ matcher EXCEPT
                      !.called = TRUE,
                      !.best_step = find_step_from_text(matcher.source_text, matcher.para_points) ]
    /\ UNCHANGED <<store, clock, uuids, responses, calls, lookup>>

NextMatcher == FindStep

SpecMatcher == InitMatcher /\ [][NextMatcher]_vars

\* -------------------------------------------------- conversation lookup
\* str(conversation["_id"])
str(id) == <<"str", id>>

\* the first document of st in natural order that is among hits, _id made
\* a string, or NoDoc (Python None)
FirstOf(st, hits) ==
    IF hits = {} THEN NoDoc
    ELSE LET doc == st[CHOOSE i \in hits : \A j \in hits : i <= j]
         IN  [ doc EXCEPT !._id = str(doc._id) ]

\* MongoDBManager.get_conversation: find_one({"room_id", "user_id"})
get_conversation(st, room_id, user_id) ==
    FirstOf(st, { i \in DOMAIN st : st[i].room_id = room_id /\ st[i].user_id = user_id })

\* MongoDBManager.get_conversation_by_id: find_one({"conversation_id"})
get_conversation_by_id(st, conversation_id) ==
    FirstOf(st, { i \in DOMAIN st : st[i].conversation_id = conversation_id })

\* the handler answering success whatever the lookup found
ConversationResponseFound(conversation) ==
    [ success |-> TRUE, conversation |-> conversation, error |-> "" ]

\* app.py lines 195-206 and 219-230: the ConversationResponse for what the
\* lookup returned
ConversationResponse(conversation) ==
    IF conversation = NoDoc
    THEN [ success |-> FALSE, conversation |-> NoDoc, error |-> "Conversation not found" ]
    ELSE [ success |-> TRUE, conversation |-> conversation, error |-> "" ]

\* app.py lines 207-211 and 231-235: the lookup raised
DatabaseErrorResponse ==
    [ success |-> FALSE, conversation |-> NoDoc, error |-> "Database error" ]

\* the conversation ids a caller may ask for
LookupIds == { <<"uuid4", k>> : k \in 1..MaxRequests }

\* GET /conversation/{room_id}/{user_id}
GetConversation(room_id, user_id) ==
    /\ lookup' = [ by |-> "room_user", room_id |-> room_id, user_id |-> user_id,
                   response |-> ConversationResponse(get_conversation(store, room_id, user_id)) ]
    /\ UNCHANGED <<store, clock, uuids, responses, calls, matcher>>

\* get_conversation_by_id(conversation_id)
GetConversationById(conversation_id) ==
    /\ lookup' = [ by |-> "id", conversation_id |-> conversation_id,
                   response |-> ConversationResponse(get_conversation_by_id(store, conversation_id)) ]
    /\ UNCHANGED <<store, clock, uuids, responses, calls, matcher>>

\* either lookup with find_one raising
LookupDatabaseError ==
    /\ lookup' = [ by |-> "failed", response |-> DatabaseErrorResponse ]
    /\ UNCHANGED <<store, clock, uuids, responses, calls, matcher>>

\* a /chat call at the default level that the model answers for the step asked
ChatStored(req) ==
    /\ req.response_level = DefaultLevel
    /\ ChatServed(req, [kind |-> "object", step |-> req.step, has_answer |-> TRUE])
    /\ lookup' = lookup

NextLookup ==
    \/ \E req \in Requests(Len(responses) + 1) : ChatStored(req)
    \/ \E room_id \in Rooms : \E user_id \in Users : GetConversation(room_id, user_id)
    \/ \E conversation_id \in LookupIds : GetConversationById(conversation_id)
    \/ LookupDatabaseError

SpecLookup == Init /\ [][NextLookup]_vars

\* ------------------------------------------------ /chat calls side by side
\* Several server processes share the collection. A /chat call is three
\* steps as far as storage goes: the count of prior hints and the model call
\* (one read), the find_one of the merge (one read), the write of the merge.
\* Nothing in the handler or in the merge locks or re-reads between them.

\* the calls begun so far
Begun == Len(responses) + Cardinality({ w \in Workers : calls[w].pc # "idle" })

\* the requests of the calls side by side: Hint requests for the steps of
\* room R1 and the default request of each room
ConcRequests(n) == { req \in Requests(n) : req.response_level = DefaultLevel }

\* the model answering with an object for the step asked
Echo(req) == [kind |-> "object", step |-> req.step, has_answer |-> TRUE]

\* QnAResponse(success=False, error=f"Failed to generate Q&A content: {e}"),
\* app.py lines 183-187, for an exception raised by the collection
StorageErrorResponse == FailureResponse([kind |-> "object"], "storage")

\* app.py line 167: generate_qna_content counts the prior hints and calls
\* the model
ChatGenerate(w, req) ==
    /\ calls[w].pc = "idle"
    /\ Begun < MaxRequests
    /\ calls' = [ calls EXCEPT ![w] =
                    [ pc |-> "generated", request |-> req,
                      qna_content |-> generate_qna_content(store, req, Echo(req), Begun + 1) ] ]
    /\ UNCHANGED <<store, clock, uuids, responses, lookup, matcher>>

\* app.py line 176 up to database.py line 27: save_qna_to_chat stamps the
\* interaction, the merge reads the conversation and the time
ChatFind(w) ==
    /\ calls[w].pc = "generated"
    /\ calls' = [ calls EXCEPT ![w] =
                    [ pc |-> "found", request |-> calls[w].request,
                      qna_content |-> calls[w].qna_content,
                      conversation_data |->
                          ConversationData(calls[w].qna_content, calls[w].request, clock + 1),
                      existing |-> find_one(store, calls[w].request.room_id, calls[w].request.user_id),
                      now |-> clock + 2 ] ]
    /\ clock' = clock + 2
    /\ UNCHANGED <<store, uuids, responses, lookup, matcher>>

\* database.py lines 29-101 and app.py lines 178-182: the one update_one or
\* insert_one decided from the document read, then the reply
ChatWrite(w) ==
    /\ calls[w].pc = "found"
    /\ LET c    == calls[w]
           uuid == <<"uuid4", uuids + 1>>
       IN  /\ store' = MergeWrite(store, c.existing, c.conversation_data, c.now, uuid)
           /\ uuids' = IF c.existing = NoDoc THEN uuids + 1 ELSE uuids
           /\ responses' = Append(responses,
                  SuccessResponse(Echo(c.request), c.request, c.qna_content,
                                  c.conversation_data.qna_entry, MergeReturn(c.existing, uuid)))
    /\ calls' = [ calls EXCEPT ![w] = IdleCall ]
    /\ UNCHANGED <<clock, lookup, matcher>>

\* the find_one of the merge raises: app.py lines 183-187
ChatFindError(w) ==
    /\ calls[w].pc = "generated"
    /\ responses' = Append(responses, StorageErrorResponse)
    /\ calls' = [ calls EXCEPT ![w] = IdleCall ]
    /\ clock' = clock + 1
    /\ UNCHANGED <<store, uuids, lookup, matcher>>

\* the update_one or insert_one of the merge raises, the write being
\* applied by the server or not: app.py lines 183-187
ChatWriteError(w, applied) ==
    /\ calls[w].pc = "found"
    /\ LET c    == calls[w]
           uuid == <<"uuid4", uuids + 1>>
       IN  /\ store' = IF applied
                       THEN MergeWrite(store, c.existing, c.conversation_data, c.now, uuid)
                       ELSE store
           /\ uuids' = IF c.existing = NoDoc THEN uuids + 1 ELSE uuids
    /\ responses' = Append(responses, StorageErrorResponse)
    /\ calls' = [ calls EXCEPT ![w] = IdleCall ]
    /\ UNCHANGED <<clock, lookup, matcher>>

NextConc ==
    \/ \E w \in Workers : \E req \in ConcRequests(Begun + 1) : ChatGenerate(w, req)
    \/ \E w \in Workers : ChatFind(w)
    \/ \E w \in Workers : ChatWrite(w)
    \/ \E w \in Workers : ChatFindError(w)
    \/ \E w \in Workers : \E applied \in BOOLEAN : ChatWriteError(w, applied)

SpecConc == Init /\ [][NextConc]_vars

\* ------------------------------------------------------------ soft delete
\* Soft deletion is done by a layer above the merge: it marks a whole
\* conversation, one step entry, or one interaction of a step entry as
\* deleted. The merge and the counter only read the marks.

\* x.get("deleted", False)
IsDeleted(x) == "deleted" \in DOMAIN x /\ x.deleted = TRUE

\* a record with its deleted mark set, the field added where it is missing
MarkDeleted(x) == [deleted |-> TRUE] @@ x

\* the whole conversation d is marked
SoftDeleteConversation(d) ==
    /\ ~IsDeleted(store[d])
    /\ store' = [store EXCEPT ![d] = MarkDeleted(@)]
    /\ UNCHANGED <<clock, uuids, responses, calls, lookup, matcher>>

\* the step entry i of conversation d is marked
SoftDeleteEntry(d, i) ==
    /\ ~IsDeleted(store[d].qna_list[i])
    /\ store' = [store EXCEPT ![d].qna_list[i] = MarkDeleted(@)]
    /\ UNCHANGED <<clock, uuids, responses, calls, lookup, matcher>>

\* one interaction of the step entry i of conversation d is marked: the
\* active one (k = 0) or the k-th of the history
SoftDeleteInteraction(d, i, k) ==
    /\ IF k = 0
       THEN /\ ~IsDeleted(store[d].qna_list[i].chatbot_interaction)
            /\ store' = [store EXCEPT ![d].qna_list[i].chatbot_interaction = MarkDeleted(@)]
       ELSE /\ ~IsDeleted(store[d].qna_list[i].escalation_history[k])
            /\ store' = [store EXCEPT ![d].qna_list[i].escalation_history[k] = MarkDeleted(@)]
    /\ UNCHANGED <<clock, uuids, responses, calls, lookup, matcher>>

\* the /chat requests made while marks are set: one room, every step, at
\* level Hint or Steps
DeleteRequests(n) ==
    { [ room_id |-> "R1", user_id |-> u, step |-> s, message |-> n, response_level |-> l ] :
        u \in Users, s \in Steps, l \in {"Hint", "Steps"} }

\* a /chat call served, the model answering for the step asked
ChatWithMarks(req) ==
    ChatServed(req, [kind |-> "object", step |-> req.step, has_answer |-> TRUE])

NextDelete ==
    \/ \E req \in DeleteRequests(Len(responses) + 1) : ChatWithMarks(req)
    \/ \E d \in DOMAIN store : SoftDeleteConversation(d)
    \/ \E d \in DOMAIN store : \E i \in DOMAIN store[d].qna_list : SoftDeleteEntry(d, i)
    \/ \E d \in DOMAIN store : \E i \in DOMAIN store[d].qna_list :
          \E k \in {0} \cup DOMAIN store[d].qna_list[i].escalation_history :
              SoftDeleteInteraction(d, i, k)

SpecDelete == Init /\ [][NextDelete]_vars

\* ======================================================================
\* Properties
\* ======================================================================
Last(s) == s[Len(s)]

\* this step handled one /chat request; NewResponse is its reply
Handled == Len(responses') = Len(responses) + 1
NewResponse == responses'[Len(responses')]
\* this step handled a /chat request that was served and merged
Merged == Handled /\ NewResponse.success

\* the non-deleted conversations of (room, user) and the non-deleted entries
\* of a step in a conversation
ConversationsOf(st, room_id, user_id) ==
    { d \in DOMAIN st :
        st[d].room_id = room_id /\ st[d].user_id = user_id /\ ~st[d].deleted }
EntriesOf(doc, step) ==
    { i \in DOMAIN doc.qna_list : doc.qna_list[i].step = step /\ ~doc.qna_list[i].deleted }

\* the Hint-level interactions held for (room, user, step): <<d, i, 0>> for
\* an active one, <<d, i, k>> for the k-th of the history
HintSlots(st, room_id, user_id, step) ==
    UNION { UNION {
        { <<d, i, k>> : k \in
            { k \in {0} \cup DOMAIN st[d].qna_list[i].escalation_history :
                IF k = 0
                THEN /\ st[d].qna_list[i].chatbot_interaction # EmptyInteraction
                     /\ st[d].qna_list[i].chatbot_interaction.response_level = "Hint"
                ELSE st[d].qna_list[i].escalation_history[k].response_level = "Hint" } }
        : i \in EntriesOf(st[d], step) }
        : d \in ConversationsOf(st, room_id, user_id) }

\* C1 (hint cap): a served request for a step whose non-deleted entry holds
\* two or more Hint-level interactions (active plus history) and whose
\* requested level is Hint is served at level Steps; every other served
\* request is served at its requested level.
C1_HintCap ==
    [][ Merged =>
          LET req  == NewResponse.request
              held == Cardinality(HintSlots(store, req.room_id, req.user_id, req.step))
          IN  NewResponse._pathway.response_level =
                IF req.response_level = "Hint" /\ held >= 2
                THEN "Steps" ELSE req.response_level ]_vars

\* a third Hint request for a step holding two hints was promoted to Steps
C1_Witness ==
    \E i \in DOMAIN responses :
        /\ responses[i].success
        /\ responses[i].request.response_level = "Hint"
        /\ responses[i].prior_hints >= 2
        /\ responses[i]._pathway.response_level = "Steps"

\* C2 (escalation preserves history): a merge whose step has a non-deleted
\* entry with a non-empty active interaction lengthens that entry's
\* escalation_history by exactly one, and no step ever shortens the
\* escalation_history of an entry.
C2_EscalationPreservesHistory ==
    [][ /\ Merged =>
             LET r == NewResponse
             IN  \A d \in ConversationsOf(store, r.request.room_id, r.request.user_id) :
                 \A i \in EntriesOf(store[d], r.qna_step) :
                    store[d].qna_list[i].chatbot_interaction # EmptyInteraction
                    => Len(store'[d].qna_list[i].escalation_history)
                         = Len(store[d].qna_list[i].escalation_history) + 1
        /\ \A d \in DOMAIN store : \A i \in DOMAIN store[d].qna_list :
             /\ d \in DOMAIN store'
             /\ i \in DOMAIN store'[d].qna_list
             /\ Len(store'[d].qna_list[i].escalation_history)
                  >= Len(store[d].qna_list[i].escalation_history) ]_vars

\* an entry that was escalated twice
C2_Witness ==
    \E d \in DOMAIN store : \E i \in DOMAIN store[d].qna_list :
        Len(store[d].qna_list[i].escalation_history) = 2

\* C3 (archived unmodified): the entry an escalation appends to
\* escalation_history has every attribute of the interaction that was active
\* before the merge, with the same value.
C3_ArchivedUnmodified ==
    [][ Merged =>
          LET r == NewResponse
          IN  \A d \in ConversationsOf(store, r.request.room_id, r.request.user_id) :
              \A i \in EntriesOf(store[d], r.qna_step) :
                 LET prior    == store[d].qna_list[i].chatbot_interaction
                     history  == store'[d].qna_list[i].escalation_history
                 IN  prior # EmptyInteraction
                     => /\ history # <<>>
                        /\ \A f \in DOMAIN prior :
                             /\ f \in DOMAIN Last(history)
                             /\ Last(history)[f] = prior[f] ]_vars

\* C4 (step isolation): a merge of an interaction for step A leaves every
\* entry of another step of the same conversation unchanged, active
\* interaction and history, whether it appends or escalates.
C4_StepIsolation ==
    [][ Merged =>
          LET r == NewResponse
          IN  \A d \in ConversationsOf(store, r.request.room_id, r.request.user_id) :
              \A i \in DOMAIN store[d].qna_list :
                 store[d].qna_list[i].step # r.qna_step
                 => /\ i \in DOMAIN store'[d].qna_list
                    /\ store'[d].qna_list[i] = store[d].qna_list[i] ]_vars

\* a conversation with entries of two steps, the first of which was escalated
\* after the second was appended
C4_Witness ==
    \E d \in DOMAIN store :
        /\ Len(store[d].qna_list) = 2
        /\ store[d].qna_list[1].step # store[d].qna_list[2].step
        /\ store[d].qna_list[1].escalation_history # <<>>
        /\ store[d].qna_list[1].chatbot_interaction.timestamp
             > store[d].qna_list[2].chatbot_interaction.timestamp

\* C5 (funnel monotonicity): for any two served requests for the same
\* (room, user, step), the buttons displayed for the later one are among the
\* buttons displayed for the earlier one.  Stated for requests whose level is
\* one of the four levels and whose interaction was stored under the
\* request's step.
C5_FunnelMonotonicity ==
    \A i \in DOMAIN responses : \A j \in DOMAIN responses :
        ( /\ i < j
          /\ responses[i].success
          /\ responses[j].success
          /\ responses[i].request.room_id = responses[j].request.room_id
          /\ responses[i].request.user_id = responses[j].request.user_id
          /\ responses[i].request.step = responses[j].request.step
          /\ \A k \in {i, j} :
               /\ responses[k].request.response_level \in ResponseLevel
               /\ responses[k].qna_step = responses[k].request.step )
        => Range(responses[j]._pathway.buttons_displayed)
             \subseteq Range(responses[i]._pathway.buttons_displayed)

\* C6 (creation idempotent identity): a merge for a (room, user) whose
\* non-deleted conversation is in storage returns that conversation's id,
\* adds no document and changes no stored conversation_id.
C6_IdempotentIdentity ==
    [][ Merged =>
          LET r       == NewResponse
              visible == ConversationsOf(store, r.request.room_id, r.request.user_id)
          IN  visible # {}
              => /\ \A d \in visible : r.conversation_id = store[d].conversation_id
                 /\ Len(store') = Len(store)
                 /\ \A d \in DOMAIN store :
                      store'[d].conversation_id = store[d].conversation_id ]_vars

\* two sequential merges for a brand-new (room, user) returned the same id
C6_Witness ==
    /\ Len(responses) >= 2
    /\ responses[1].success
    /\ responses[2].success
    /\ responses[1].request.room_id = responses[2].request.room_id
    /\ responses[1].request.user_id = responses[2].request.user_id
    /\ responses[1].conversation_id = responses[2].conversation_id
    /\ Len(store) = 1

\* the first requests of a run being the scenario's: served requests with
\* requested level Hint for room R1, user U1, step 3, three at most
Scenario ==
    /\ Len(responses) <= 3
    /\ \A i \in DOMAIN responses :
        /\ responses[i].success
        /\ responses[i].request.room_id = "R1"
        /\ responses[i].request.user_id = "U1"
        /\ responses[i].request.step = 3
        /\ responses[i].request.response_level = "Hint"

\* C7 (end-to-end, levels and storage): from empty storage, three served
\* Hint requests for (R1, U1, step 3) see prior hint counts 0, 1, 2 and are
\* served Hint, Hint, Steps; afterwards the step-3 entry holds exactly two
\* archived Hint interactions and an active Steps interaction.
C7_EndToEndLevels ==
    Scenario =>
        /\ \A i \in DOMAIN responses :
             /\ responses[i].prior_hints = i - 1
             /\ responses[i]._pathway.response_level = (IF i = 3 THEN "Steps" ELSE "Hint")
        /\ Len(responses) = 3 =>
             \E d \in ConversationsOf(store, "R1", "U1") :
             \E e \in EntriesOf(store[d], 3) :
                LET q == store[d].qna_list[e]
                IN  /\ Len(q.escalation_history) = 2
                    /\ \A k \in DOMAIN q.escalation_history :
                         q.escalation_history[k].response_level = "Hint"
                    /\ q.chatbot_interaction.response_level = "Steps"

\* C8 as stated (end-to-end, affordances): in the scenario the buttons after
\* request 1 and after request 2 include More Hint, and the buttons after
\* request 3 are exactly [Worked Solution, Just the Answer] with More Hint
\* among the removed options.
C8_EndToEndButtonsAsStated ==
    Scenario =>
        /\ Len(responses) >= 1 =>
             "More Hint" \in Range(responses[1]._pathway.buttons_displayed)
        /\ Len(responses) >= 2 =>
             "More Hint" \in Range(responses[2]._pathway.buttons_displayed)
        /\ Len(responses) >= 3 =>
             /\ responses[3]._pathway.buttons_displayed = <<"Worked Solution", "Just the Answer">>
             /\ "More Hint" \in Range(responses[3]._pathway.next_options_removed)

\* C8 amended (end-to-end, affordances): in the scenario the buttons after
\* request 1 include More Hint; the buttons after a request that saw prior
\* count 1 (served Hint) are exactly [Show Steps, Worked Solution, Just the
\* Answer] with More Hint among the removed options; the buttons after a
\* request that saw prior count 2 are exactly [Worked Solution, Just the
\* Answer] with More Hint among the removed options.
C8_EndToEndButtons ==
    Scenario =>
        /\ Len(responses) >= 1 =>
             "More Hint" \in Range(responses[1]._pathway.buttons_displayed)
        /\ \A i \in DOMAIN responses :
             LET r == responses[i]
             IN  /\ r.prior_hints = 1 =>
                      /\ r._pathway.response_level = "Hint"
                      /\ r._pathway.buttons_displayed
                           = <<"Show Steps", "Worked Solution", "Just the Answer">>
                      /\ "More Hint" \in Range(r._pathway.next_options_removed)
                 /\ r.prior_hints = 2 =>
                      /\ r._pathway.buttons_displayed = <<"Worked Solution", "Just the Answer">>
                      /\ "More Hint" \in Range(r._pathway.next_options_removed)

\* the scenario run to its end with the three requests seeing 0, 1, 2 hints
C8_Witness ==
    /\ Scenario
    /\ Len(responses) = 3
    /\ \A i \in DOMAIN responses : responses[i].prior_hints = i - 1

\* the affordance table of the response-level policy
AffordanceTable(level, count) ==
    CASE level = "Hint" /\ count < 2 ->
            <<  <<"More Hint", "Show Steps", "Worked Solution", "Just the Answer">>, <<>>  >>
      [] level = "Hint" /\ count >= 2 ->
            <<  <<"Show Steps", "Worked Solution", "Just the Answer">>, <<"More Hint">>  >>
      [] level = "Steps" ->
            <<  <<"Worked Solution", "Just the Answer">>, <<"More Hint">>  >>
      [] level = "Worked Solution" ->
            <<  <<"Just the Answer">>, <<"More Hint", "Show Steps">>  >>
      [] level = "Answer" ->
            <<  <<>>, <<"More Hint", "Show Steps", "Worked Solution">>  >>

\* C9 (affordance table): every served response whose level is one of the
\* four levels carries exactly the table's displayed and removed lists for
\* that level and the count "prior hints, plus one when the level is Hint".
C9_AffordanceTable ==
    \A i \in DOMAIN responses :
        LET r     == responses[i]
            level == r._pathway.response_level
            count == r.prior_hints + (IF level = "Hint" THEN 1 ELSE 0)
        IN  (r.success /\ level \in {"Hint", "Steps", "Worked Solution", "Answer"})
            => /\ r._pathway.buttons_displayed = AffordanceTable(level, count)[1]
               /\ r._pathway.next_options_removed = AffordanceTable(level, count)[2]

\* every row of the table has been served: Hint below and at the cap, Steps,
\* Worked Solution, Answer
C9_Witness ==
    /\ \E i \in DOMAIN responses :
         /\ responses[i].success
         /\ responses[i]._pathway.response_level = "Hint"
         /\ responses[i].prior_hints = 1
    /\ \E i \in DOMAIN responses :
         /\ responses[i].success
         /\ responses[i]._pathway.response_level = "Hint"
         /\ responses[i].prior_hints = 0
    /\ \E i \in DOMAIN responses :
         /\ responses[i].success
         /\ responses[i]._pathway.response_level \in {"Steps", "Worked Solution", "Answer"}

\* C10 (model failure leaves storage unmodified): a /chat request whose
\* model call raises, returns empty output or returns output that is not a
\* JSON object ends with a failure result and leaves the stored
\* conversations as they were.
C10_ModelFailureNoWrite ==
    [][ (Handled /\ NewResponse.llm \in FailKinds)
          => /\ ~NewResponse.success
             /\ store' = store ]_vars

\* a model failure on a request made when a conversation was already stored
C10_Witness ==
    /\ store # <<>>
    /\ responses # <<>>
    /\ ~Last(responses).success
    /\ Last(responses).llm \in FailKinds

\* C11 (unique step entry): after any sequence of merges executed one at a
\* time, every conversation holds at most one non-deleted entry per distinct
\* step value.
C11_UniqueStepEntry ==
    \A d \in DOMAIN store :
        \A i, j \in DOMAIN store[d].qna_list :
            ( /\ ~store[d].qna_list[i].deleted
              /\ ~store[d].qna_list[j].deleted
              /\ store[d].qna_list[i].step = store[d].qna_list[j].step ) => i = j

\* three merges went to one conversation, two of them for the same step: it
\* holds two entries, one of them with an archived interaction
C11_Witness ==
    \E d \in DOMAIN store :
        /\ Len(store[d].qna_list) = 2
        /\ \E i \in DOMAIN store[d].qna_list :
               Len(store[d].qna_list[i].escalation_history) = 1

\* C16 (hint counter): the count generate_qna_content reads for a request is
\* 0 when (room, user) has no non-deleted conversation or the conversation
\* has no non-deleted entry of the request's step; otherwise it is 1 if the
\* entry's active interaction is at level Hint, plus the number of items of
\* its escalation_history at level Hint. Entries of other steps are not
\* counted.
C16_HintCounter ==
    [][ Merged =>
          LET req  == NewResponse.request
              docs == ConversationsOf(store, req.room_id, req.user_id)
          IN  IF docs = {} THEN NewResponse.prior_hints = 0
              ELSE \A d \in docs :
                   IF EntriesOf(store[d], req.step) = {} THEN NewResponse.prior_hints = 0
                   ELSE \A i \in EntriesOf(store[d], req.step) :
                        LET q       == store[d].qna_list[i]
                            active  == IF q.chatbot_interaction # EmptyInteraction
                                          /\ q.chatbot_interaction.response_level = "Hint"
                                       THEN 1 ELSE 0
                            history == { k \in DOMAIN q.escalation_history :
                                           q.escalation_history[k].response_level = "Hint" }
                        IN  NewResponse.prior_hints = active + Cardinality(history) ]_vars

\* a request read the count 1 from an entry whose only Hint was archived and
\* whose active interaction was at another level
C16_Witness ==
    \E n \in DOMAIN responses : \E d \in DOMAIN store :
        /\ responses[n].success
        /\ responses[n].prior_hints = 1
        /\ responses[n].conversation_id = store[d].conversation_id
        /\ \E i \in DOMAIN store[d].qna_list :
              /\ store[d].qna_list[i].step = responses[n].request.step
              /\ Len(store[d].qna_list[i].escalation_history) = 2
              /\ store[d].qna_list[i].escalation_history[1].response_level = "Hint"
              /\ store[d].qna_list[i].escalation_history[2].response_level # "Hint"

\* C18 (Hint fallback): a served request whose level is outside the four
\* levels (here: absent) gets the effective level and the affordances that
\* the same request at level Hint gets for the same count of prior hints:
\* Hint below the cap and Steps from the cap on, with the table's lists for
\* that level.
C18_HintFallback ==
    \A i \in DOMAIN responses :
        LET r     == responses[i]
            level == IF r.prior_hints >= 2 THEN "Steps" ELSE "Hint"
            count == r.prior_hints + (IF level = "Hint" THEN 1 ELSE 0)
        IN  (r.success /\ r.request.response_level \notin ResponseLevel)
            => /\ r._pathway.response_level = level
               /\ r._pathway.buttons_displayed = AffordanceTable(level, count)[1]
               /\ r._pathway.next_options_removed = AffordanceTable(level, count)[2]

\* C15 (validation before storage): a /chat request whose step is not an
\* integer, or whose room id or user id is missing, is rejected: it is not
\* served and storage is left as it was.
C15_RejectedBeforeStorage ==
    [][ Handled =>
          LET r == NewResponse
          IN  /\ r.success => (r.request.room_id # None /\ r.request.user_id # None)
              /\ (~r.success /\ r.request.step.json # "integer") => store' = store ]_vars

\* C17 (More Hint as input): a /chat request at level More Hint, with an
\* integer step, is served as the same request at level Hint is: its
\* effective and stored level is Hint below the cap and Steps from the cap
\* on, with the affordances of that level.
C17_MoreHintAsHint ==
    [][ ( /\ Handled
          /\ NewResponse.request.response_level = "More Hint"
          /\ ~NewResponse.success => NewResponse.request.step.json = "integer" )
        =>
          LET r     == NewResponse
              step  == IF r.success THEN r.request.step ELSE r.request.step.value
              held  == Cardinality(HintSlots(store, r.request.room_id, r.request.user_id, step))
              level == IF held >= 2 THEN "Steps" ELSE "Hint"
              count == held + (IF level = "Hint" THEN 1 ELSE 0)
          IN  /\ r.success
              /\ r._pathway.response_level = level
              /\ r._pathway.buttons_displayed = AffordanceTable(level, count)[1]
              /\ r._pathway.next_options_removed = AffordanceTable(level, count)[2]
              /\ \E d \in ConversationsOf(store', r.request.room_id, r.request.user_id) :
                 \E i \in EntriesOf(store'[d], r.qna_step) :
                     store'[d].qna_list[i].chatbot_interaction.response_level = level ]_vars

\* the tokens of a text: its words in lower case, as a set
TokensOf(text) == { IF text[i] = "A" THEN "a" ELSE text[i] : i \in DOMAIN text }

\* C19 (step relevance matcher): with each candidate scored
\* |tokens(fragment) /\ tokens(candidate)| / |tokens(candidate)| (0 for a
\* candidate without tokens), find_step returns the step of the first
\* candidate in list order whose score is the highest of the list, if that
\* score is above 1/2; otherwise the first candidate's step, or 1 for the
\* empty list.
C19_StepMatcher ==
    matcher.called =>
        LET ps      == matcher.para_points
            frag    == TokensOf(matcher.source_text)
            num(i)  == Cardinality(frag \cap TokensOf(ps[i].text))
            den(i)  == Cardinality(TokensOf(ps[i].text))
            \* score(i) >= score(j), a candidate without tokens scoring 0
            AtLeast(i, j) ==
                IF den(j) = 0 THEN TRUE
                ELSE IF den(i) = 0 THEN num(j) = 0
                ELSE num(i) * den(j) >= num(j) * den(i)
            top     == { i \in DOMAIN ps :
                           /\ den(i) > 0
                           /\ 2 * num(i) > den(i)
                           /\ \A j \in DOMAIN ps : AtLeast(i, j) }
        IN  matcher.best_step =
              IF ps = <<>> THEN 1
              ELSE IF top = {} THEN ps[1].step
              ELSE ps[CHOOSE i \in top : \A j \in top : i <= j].step

\* the matcher passed over a first candidate scoring 2/3 (step 1) for a
\* later one scoring 1 (step 2)
C19_Witness ==
    /\ matcher.called
    /\ Len(matcher.para_points) = 2
    /\ matcher.para_points[1].step = 1
    /\ matcher.para_points[2].step = 2
    /\ TokensOf(matcher.source_text) = {"a", "b"}
    /\ matcher.best_step = 2

\* C20 (lookup of an absent conversation): a lookup by (room, user) for
\* which storage holds no conversation, or by a conversation id that no
\* stored conversation has, is answered with success false and no
\* conversation, and storage is left as it was.
C20_LookupNotFound ==
    [][ lookup' # lookup =>
          LET absent ==
                \/ /\ lookup'.by = "room_user"
                   /\ \A d \in DOMAIN store :
                        ~(store[d].room_id = lookup'.room_id /\ store[d].user_id = lookup'.user_id)
                \/ /\ lookup'.by = "id"
                   /\ \A d \in DOMAIN store : store[d].conversation_id # lookup'.conversation_id
          IN  absent => /\ ~lookup'.response.success
                        /\ lookup'.response.conversation = NoDoc
                        /\ lookup'.response.error = "Conversation not found"
                        /\ store' = store ]_vars

\* with a conversation stored for room R1, the last lookup asked for a
\* conversation id that no stored conversation has and was answered not found
C20_Witness ==
    /\ store # <<>>
    /\ lookup.by = "id"
    /\ \A d \in DOMAIN store : store[d].conversation_id # lookup.conversation_id
    /\ ~lookup.response.success

\* no call so far was answered with a storage error
NoStorageError == \A n \in DOMAIN responses : responses[n].error # "storage"

\* the served calls whose entry was merged for (room, user, step)
MergesOf(room_id, user_id, step) ==
    { n \in DOMAIN responses :
        /\ responses[n].success
        /\ responses[n].request.room_id = room_id
        /\ responses[n].request.user_id = user_id
        /\ responses[n].qna_step = step }

\* the interactions held for (room, user, step): <<d, i, 0>> for an active
\* one, <<d, i, k>> for the k-th of the history; and the time each was stamped
InteractionSlots(st, room_id, user_id, step) ==
    UNION { UNION {
        { <<d, i, k>> : k \in
            { k \in {0} \cup DOMAIN st[d].qna_list[i].escalation_history :
                k = 0 => st[d].qna_list[i].chatbot_interaction # EmptyInteraction } }
        : i \in EntriesOf(st[d], step) }
        : d \in ConversationsOf(st, room_id, user_id) }
StampOf(st, slot) ==
    IF slot[3] = 0
    THEN st[slot[1]].qna_list[slot[2]].chatbot_interaction.timestamp
    ELSE st[slot[1]].qna_list[slot[2]].escalation_history[slot[3]].timestamp

\* C12 (same-step merges do not race): whatever the interleaving of the
\* reads and writes of the merges, storage holds for every (room, user,
\* step) what a serial order of the merges leaves: every merged interaction
\* once, as the active one or in the history, and no interaction twice.
C12_SameStepSerial ==
    NoStorageError =>
        \A room_id \in Rooms : \A user_id \in Users : \A step \in Steps \cup {NoStep} :
            LET slots == InteractionSlots(store, room_id, user_id, step)
            IN  /\ \A s, t \in slots : StampOf(store, s) = StampOf(store, t) => s = t
                /\ Cardinality(slots) = Cardinality(MergesOf(room_id, user_id, step))

\* C13 (different steps and different pairs merge in parallel): whatever the
\* interleaving, a (room, user) whose merges were all for different steps
\* ends as after a serial order of them: no conversation without a merge,
\* otherwise one conversation holding one entry per merge, none of them
\* with a history.
C13_ParallelSerial ==
    NoStorageError =>
        \A room_id \in Rooms : \A user_id \in Users :
            LET merges == UNION { MergesOf(room_id, user_id, step) : step \in Steps \cup {NoStep} }
                docs   == ConversationsOf(store, room_id, user_id)
            IN  (\A step \in Steps \cup {NoStep} : Cardinality(MergesOf(room_id, user_id, step)) <= 1)
                => IF merges = {} THEN docs = {}
                   ELSE /\ Cardinality(docs) = 1
                        /\ \A d \in docs :
                             /\ Len(store[d].qna_list) = Cardinality(merges)
                             /\ \A n \in merges :
                                  Cardinality(EntriesOf(store[d], responses[n].qna_step)) = 1
                             /\ \A i \in DOMAIN store[d].qna_list :
                                  store[d].qna_list[i].escalation_history = <<>>

\* the times stamped on the interactions an entry holds
StampsOfEntry(q) ==
    { q.escalation_history[k].timestamp : k \in DOMAIN q.escalation_history }
    \cup (IF q.chatbot_interaction = EmptyInteraction THEN {}
          ELSE {q.chatbot_interaction.timestamp})

\* C14 (escalation is one compound update): in every step of every call,
\* storage failures included, an entry with an active interaction either
\* keeps both its active interaction and its history, or gets at once the
\* new active interaction of a merge and exactly one more archived item,
\* the interaction that merge read as the active one; no state between the
\* two exists for a reader. A call answered with a storage error has
\* ended: the handler does not run the merge again.
C14_CompoundUpdate ==
    [][ /\ \A d \in DOMAIN store : \A i \in DOMAIN store[d].qna_list :
             LET q  == store[d].qna_list[i]
                 q2 == store'[d].qna_list[i]
             IN  q.chatbot_interaction # EmptyInteraction =>
                   \/ /\ q2.chatbot_interaction = q.chatbot_interaction
                      /\ q2.escalation_history = q.escalation_history
                   \/ /\ q2.chatbot_interaction # EmptyInteraction
                      /\ q2.chatbot_interaction.timestamp \notin StampsOfEntry(q)
                      /\ Len(q2.escalation_history) = Len(q.escalation_history) + 1
                      /\ SubSeq(q2.escalation_history, 1, Len(q.escalation_history))
                            = q.escalation_history
                      /\ \E w \in Workers :
                            /\ calls[w].pc = "found" /\ calls'[w] = IdleCall
                            /\ q2.chatbot_interaction =
                                 calls[w].conversation_data.qna_entry.chatbot_interaction
                            /\ Last(q2.escalation_history).timestamp =
                                 calls[w].existing.qna_list[i].chatbot_interaction.timestamp
        /\ (Handled /\ NewResponse.error = "storage") =>
              /\ ~NewResponse.success
              /\ \E w \in Workers : calls[w].pc # "idle" /\ calls'[w] = IdleCall
              /\ \A w \in Workers : calls'[w] # calls[w] => calls'[w] = IdleCall ]_vars

\* a call was answered with a storage error and an entry holds an archived
\* interaction beside its active one
C14_Witness ==
    /\ \E n \in DOMAIN responses : responses[n].error = "storage"
    /\ \E d \in DOMAIN store : \E i \in DOMAIN store[d].qna_list :
          /\ Len(store[d].qna_list[i].escalation_history) >= 1
          /\ store[d].qna_list[i].chatbot_interaction # EmptyInteraction

\* C21 (create transition): a merge for a (room, user) without a non-deleted
\* conversation adds exactly one conversation and changes no other: it is
\* of that room and user, not deleted, its conversation id is the one
\* returned and differs from every id stored before, and its qna_list is
\* one entry holding the new interaction as the active one, with an empty
\* escalation_history.
C21_CreateTransition ==
    [][ ( /\ Merged
          /\ ConversationsOf(store, NewResponse.request.room_id,
                             NewResponse.request.user_id) = {} )
        =>
          LET r   == NewResponse
              doc == store'[Len(store')]
          IN  /\ Len(store') = Len(store) + 1
              /\ SubSeq(store', 1, Len(store)) = store
              /\ doc.room_id = r.request.room_id
              /\ doc.user_id = r.request.user_id
              /\ ~doc.deleted
              /\ doc.conversation_id = r.conversation_id
              /\ \A d \in DOMAIN store : store[d].conversation_id # doc.conversation_id
              /\ Len(doc.qna_list) = 1
              /\ doc.qna_list[1].escalation_history = <<>>
              /\ ~doc.qna_list[1].deleted
              /\ doc.qna_list[1].step = r.qna_step
              /\ doc.qna_list[1].student_query = r.request.message
              /\ doc.qna_list[1].chatbot_interaction # EmptyInteraction
              /\ doc.qna_list[1].chatbot_interaction.timestamp = clock + 1
              /\ doc.qna_list[1].chatbot_interaction.response_level
                    = r._pathway.response_level ]_vars

\* a second conversation was created beside an existing one, for another room
C21_Witness ==
    /\ Len(store) = 2
    /\ store[1].room_id # store[2].room_id
    /\ store[1].conversation_id # store[2].conversation_id
    /\ Len(store[2].qna_list) = 1

\* C22 (append transition): a merge into the conversation of a (room, user)
\* that has no non-deleted entry of the interaction's step appends exactly
\* one entry at the end of its qna_list, holding the new interaction as the
\* active one with an empty escalation_history, leaves every entry it had
\* unchanged, sets last_updated to the time of the merge, and adds or
\* changes no other conversation.
C22_AppendTransition ==
    [][ Merged =>
          LET r == NewResponse
          IN  \A d \in ConversationsOf(store, r.request.room_id, r.request.user_id) :
                  EntriesOf(store[d], r.qna_step) = {} =>
                      LET n == Len(store[d].qna_list)
                          q == store'[d].qna_list[n + 1]
                      IN  /\ Len(store') = Len(store)
                          /\ \A e \in DOMAIN store : e # d => store'[e] = store[e]
                          /\ Len(store'[d].qna_list) = n + 1
                          /\ SubSeq(store'[d].qna_list, 1, n) = store[d].qna_list
                          /\ q.step = r.qna_step
                          /\ ~q.deleted
                          /\ q.escalation_history = <<>>
                          /\ q.student_query = r.request.message
                          /\ q.chatbot_interaction # EmptyInteraction
                          /\ q.chatbot_interaction.timestamp = clock + 1
                          /\ q.chatbot_interaction.response_level = r._pathway.response_level
                          /\ store'[d].last_updated = clock + 2
                          /\ store'[d].last_updated > store[d].last_updated
                          /\ store'[d].conversation_id = store[d].conversation_id
                          /\ r.conversation_id = store[d].conversation_id ]_vars

\* a conversation got a second entry, for another step, after its first
\* entry had been escalated: the first entry kept its history
C22_Witness ==
    \E d \in DOMAIN store :
        /\ Len(store[d].qna_list) = 2
        /\ Len(store[d].qna_list[1].escalation_history) = 1
        /\ store[d].qna_list[2].escalation_history = <<>>
        /\ store[d].qna_list[2].step # store[d].qna_list[1].step
        /\ store[d].qna_list[2].chatbot_interaction.timestamp = store[d].last_updated - 1

\* the time stamped on the interaction of the n-th call, a served one: each
\* served call reads the time twice, first for its interaction
ServedStamp(n) == 2 * Cardinality({ m \in 1..n : responses[m].success }) - 1

\* C23 (history is chronological, active is latest): with calls handled one
\* at a time, the entry of a step always holds the interactions merged for
\* the step in the order they were served: its escalation_history is the
\* earlier ones, oldest first, each with the level and time it was served
\* at, and its active interaction is that of the most recent merge for the
\* step.
C23_ChronologicalHistory ==
    [] ( \A room_id \in Rooms : \A user_id \in Users : \A step \in Steps \cup {NoStep} :
           LET merges == MergesOf(room_id, user_id, step)
           IN  merges # {} =>
                 \A d \in ConversationsOf(store, room_id, user_id) :
                 \A i \in EntriesOf(store[d], step) :
                     LET q    == store[d].qna_list[i]
                         last == CHOOSE n \in merges : \A m \in merges : m <= n
                     IN  /\ Len(q.escalation_history) = Cardinality(merges) - 1
                         /\ \A k \in DOMAIN q.escalation_history :
                               \E n \in merges :
                                   /\ Cardinality({ m \in merges : m <= n }) = k
                                   /\ q.escalation_history[k].timestamp = ServedStamp(n)
                                   /\ q.escalation_history[k].response_level
                                         = responses[n]._pathway.response_level
                         /\ q.chatbot_interaction # EmptyInteraction
                         /\ q.chatbot_interaction.timestamp = ServedStamp(last)
                         /\ q.chatbot_interaction.response_level
                               = responses[last]._pathway.response_level
                         /\ q.student_query = responses[last].request.message )

\* three interactions were merged for one step: two archived in the order
\* served, the third active
C23_Witness ==
    \E d \in DOMAIN store : \E i \in DOMAIN store[d].qna_list :
        LET q == store[d].qna_list[i]
        IN  /\ Len(q.escalation_history) = 2
            /\ q.escalation_history[1].timestamp < q.escalation_history[2].timestamp
            /\ q.escalation_history[2].timestamp < q.chatbot_interaction.timestamp
            /\ q.escalation_history[1].response_level # q.escalation_history[2].response_level

\* C24 (persisted history is append-only): a merge removes no conversation
\* and no entry and moves none: every entry stays at its place with its
\* step and its deleted flag, and the escalation_history it had is a prefix
\* of the one it has after the merge, item by item unchanged.
C24_AppendOnly ==
    [][ /\ Len(store') >= Len(store)
        /\ \A d \in DOMAIN store :
             /\ store'[d]._id = store[d]._id
             /\ store'[d].conversation_id = store[d].conversation_id
             /\ Len(store'[d].qna_list) >= Len(store[d].qna_list)
             /\ \A i \in DOMAIN store[d].qna_list :
                  LET q  == store[d].qna_list[i]
                      q2 == store'[d].qna_list[i]
                  IN  /\ q2.step = q.step
                      /\ q2.deleted = q.deleted
                      /\ Len(q2.escalation_history) >= Len(q.escalation_history)
                      /\ SubSeq(q2.escalation_history, 1, Len(q.escalation_history))
                            = q.escalation_history ]_vars

\* an entry holds two archived interactions, the first of them the first
\* interaction ever stored
C24_Witness ==
    \E d \in DOMAIN store :
        /\ Len(store[d].qna_list) >= 1
        /\ Len(store[d].qna_list[1].escalation_history) = 2
        /\ store[d].qna_list[1].escalation_history[1].timestamp = 1

\* C27 (stored levels): the response level of every active and of every
\* archived interaction in storage is one of Hint, Steps, Worked Solution,
\* Answer, whatever level the request carried.
C27_StoredLevels ==
    \A d \in DOMAIN store : \A i \in DOMAIN store[d].qna_list :
        LET q == store[d].qna_list[i]
        IN  /\ q.chatbot_interaction # EmptyInteraction
                => q.chatbot_interaction.response_level \in ResponseLevel
            /\ \A k \in DOMAIN q.escalation_history :
                  q.escalation_history[k].response_level \in ResponseLevel

\* C28 (only answers are persisted): every interaction in storage holds the
\* answer field of the model output of its call; an output without an
\* answer field leaves no interaction. The answer of the call with message
\* n is n, and 0 stands for the text stored when the field is missing.
C28_AnswerPersisted ==
    \A d \in DOMAIN store : \A i \in DOMAIN store[d].qna_list :
        LET q == store[d].qna_list[i]
        IN  /\ q.chatbot_interaction # EmptyInteraction
                => q.chatbot_interaction.llm_response = q.student_query
            /\ \A k \in DOMAIN q.escalation_history :
                  q.escalation_history[k].llm_response # 0

\* the place of a level in Hint < Steps < Worked Solution < Answer, and the
\* level a button asks for
LevelRank(level) ==
    CASE level = "Hint" -> 1 [] level = "Steps" -> 2
      [] level = "Worked Solution" -> 3 [] level = "Answer" -> 4
ButtonRank(button) ==
    CASE button = "More Hint" -> 1 [] button = "Show Steps" -> 2
      [] button = "Worked Solution" -> 3 [] button = "Just the Answer" -> 4

\* the lists _next_buttons computes, for every level and count
ButtonTable ==
    [ L \in ResponseLevel |-> [ c \in 0..(HINT_CAP + 1) |-> _next_buttons(L, c) ] ]

\* the lists of level hi are at or below those of level lo on the ladder:
\* nothing displayed that lo does not display, nothing removed by lo kept
Funnels(lo, hi) ==
    /\ Range(hi.buttons_displayed) \subseteq Range(lo.buttons_displayed)
    /\ Range(lo.next_options_removed) \subseteq Range(hi.next_options_removed)

\* the table of _next_buttons is a ladder, for any two levels and any counts
TableFunnels ==
    /\ \A L1, L2 \in ResponseLevel : \A c1, c2 \in 0..(HINT_CAP + 1) :
          LevelRank(L1) < LevelRank(L2) => Funnels(ButtonTable[L1][c1], ButtonTable[L2][c2])
    /\ \A L \in ResponseLevel : \A c \in 0..(HINT_CAP + 1) :
          \A b \in Range(ButtonTable[L][c].buttons_displayed) :
              \/ ButtonRank(b) > LevelRank(L)
              \/ b = "More Hint" /\ L = "Hint" /\ c < HINT_CAP

\* C26 (funnelling ladder): for any two of the four levels L1 < L2 and any
\* hint counts, the buttons displayed at L2 are among those displayed at L1
\* and the options removed at L1 are among those removed at L2; and the
\* buttons displayed at a level ask for a more revealing level only, except
\* More Hint at level Hint below the cap. Stated for the table _next_buttons
\* computes, whose rows are the lists every served response carries: a Hint
\* carries the row of its level at the count that includes it, any other
\* level the row of its level.
C26_FunnellingLadder ==
    [][ ( Merged /\ NewResponse._pathway.response_level \in ResponseLevel ) =>
          LET p == NewResponse._pathway
              L == p.response_level
          IN  /\ TableFunnels
              /\ \E c \in 0..(HINT_CAP + 1) :
                    /\ L = "Hint" => c = NewResponse.prior_hints + 1
                    /\ p.buttons_displayed = ButtonTable[L][c].buttons_displayed
                    /\ p.next_options_removed = ButtonTable[L][c].next_options_removed ]_vars

\* a Hint below the cap, a Worked Solution and an Answer have been served:
\* four buttons, then one, then none
C26_Witness ==
    \E i, j, k \in DOMAIN responses :
        /\ responses[i].success /\ responses[j].success /\ responses[k].success
        /\ responses[i]._pathway.response_level = "Hint"
        /\ Len(responses[i]._pathway.buttons_displayed) = 4
        /\ responses[j]._pathway.response_level = "Worked Solution"
        /\ Len(responses[j]._pathway.buttons_displayed) = 1
        /\ responses[k]._pathway.response_level = "Answer"
        /\ responses[k]._pathway.buttons_displayed = <<>>

\* the interaction in slot <<d, i, k>> of HintSlots
SlotInteraction(st, slot) ==
    IF slot[3] = 0
    THEN st[slot[1]].qna_list[slot[2]].chatbot_interaction
    ELSE st[slot[1]].qna_list[slot[2]].escalation_history[slot[3]]

\* the Hint-level interactions of (room, user, step) that are not marked
\* deleted, in entries and conversations that are not marked deleted
LiveHintSlots(st, room_id, user_id, step) ==
    { slot \in HintSlots(st, room_id, user_id, step) : ~IsDeleted(SlotInteraction(st, slot)) }

\* the entries of a step in a conversation, marked deleted or not
AllEntriesOf(doc, step) ==
    { i \in DOMAIN doc.qna_list : doc.qna_list[i].step = step }

\* C25 (soft-deleted data excluded): when a request is served, the hint count
\* read for it is the number of Hint-level interactions of its step that are
\* not marked deleted and sit in an entry and a conversation not marked
\* deleted; no entry marked deleted is changed by the merge; and when every
\* entry of the step in the conversation found is marked deleted, the merge
\* appends a fresh entry (empty history, not deleted) and leaves the rest of
\* the entry list as it was.
C25_DeletedExcluded ==
    [][ Merged =>
          LET req == NewResponse.request
              D   == ConversationsOf(store, req.room_id, req.user_id)
          IN  /\ NewResponse.prior_hints =
                    Cardinality(LiveHintSlots(store, req.room_id, req.user_id, req.step))
              /\ \A d \in DOMAIN store : \A i \in DOMAIN store[d].qna_list :
                    IsDeleted(store[d].qna_list[i]) \/ IsDeleted(store[d])
                        => store'[d].qna_list[i] = store[d].qna_list[i]
              /\ \A d \in D :
                    ( /\ d = CHOOSE e \in D : \A f \in D : e <= f
                      /\ AllEntriesOf(store[d], NewResponse.qna_step) # {}
                      /\ EntriesOf(store[d], NewResponse.qna_step) = {} )
                    => /\ Len(store'[d].qna_list) = Len(store[d].qna_list) + 1
                       /\ SubSeq(store'[d].qna_list, 1, Len(store[d].qna_list)) = store[d].qna_list
                       /\ Last(store'[d].qna_list).step = NewResponse.qna_step
                       /\ Last(store'[d].qna_list).escalation_history = <<>>
                       /\ ~IsDeleted(Last(store'[d].qna_list)) ]_vars

\* the times stamped on the interactions a document read by find_one holds
\* for a step, none for NoDoc
StampsOfDoc(doc, step) ==
    IF doc = NoDoc THEN {}
    ELSE UNION { StampsOfEntry(doc.qna_list[i]) : i \in EntriesOf(doc, step) }

\* the interactions of (room, user, step) committed since worker w read the
\* conversation, by their times
CommittedSinceRead(w) ==
    LET c == calls[w]
        q == c.conversation_data.qna_entry
    IN  { StampOf(store, s) : s \in InteractionSlots(store, c.request.room_id,
                                                     c.request.user_id, q.step) }
        \ StampsOfDoc(c.existing, q.step)

\* worker w commits its merge in this step, another merge for the same
\* (room, user, step) having committed since w read the conversation; both
\* read a conversation, not the absence of one
RacedWrite(w) ==
    /\ calls[w].pc = "found"
    /\ calls[w].existing # NoDoc
    /\ calls'[w] = IdleCall
    /\ store' # store
    /\ CommittedSinceRead(w) # {}

\* an escalation history whose items are in the order they were stamped
Chronological(history) ==
    \A j, k \in DOMAIN history : j < k => history[j].timestamp < history[k].timestamp

\* C29 (accepted same-step race): when a merge commits after another merge
\* for the same (room, user, step) committed since it read the conversation,
\* the step's entry (the first non-deleted one of the conversation found)
\* has the last committer's interaction as its active one, and every
\* interaction committed in between is either absent from that entry
\* (neither active nor in escalation_history) or archived in a history that
\* is out of order.
C29_LastCommitWins ==
    [][ \A w \in Workers :
          RacedWrite(w) =>
            LET c    == calls[w]
                q    == c.conversation_data.qna_entry
                doc2 == find_one(store', c.request.room_id, c.request.user_id)
                i    == FoundIdx(doc2.qna_list, q.step)
                e    == doc2.qna_list[i]
            IN  /\ i # 0
                /\ e.chatbot_interaction = q.chatbot_interaction
                /\ \A t \in CommittedSinceRead(w) :
                      \/ t \notin StampsOfEntry(e)
                      \/ /\ \E k \in DOMAIN e.escalation_history :
                               e.escalation_history[k].timestamp = t
                         /\ ~Chronological(e.escalation_history) ]_vars

\* C30 (one conversation, one entry per step): in every state, whatever the
\* interleaving of the calls, each (room, user) has at most one non-deleted
\* conversation, and a non-deleted conversation holds at most one
\* non-deleted entry per step.
C30_OneConversationOneEntry ==
    /\ \A room_id \in Rooms : \A user_id \in Users :
          Cardinality(ConversationsOf(store, room_id, user_id)) <= 1
    /\ \A d \in DOMAIN store : ~store[d].deleted =>
          \A step \in Steps \cup {NoStep} :
              Cardinality(EntriesOf(store[d], step)) <= 1

\* the Hint-level interactions one entry holds, active plus history
HintsHeld(q) ==
    Cardinality({ k \in {0} \cup DOMAIN q.escalation_history :
        IF k = 0
        THEN /\ q.chatbot_interaction # EmptyInteraction
             /\ q.chatbot_interaction.response_level = "Hint"
        ELSE q.escalation_history[k].response_level = "Hint" })

\* C31 (no entry beyond the cap): after any sequence of /chat requests
\* handled one at a time, whatever the levels requested and whatever the
\* model answered, every non-deleted step entry holds at most HINT_CAP
\* Hint-level interactions, active plus escalation_history.
C31_EntryHintCap ==
    \A d \in DOMAIN store : \A i \in DOMAIN store[d].qna_list :
        ~store[d].qna_list[i].deleted => HintsHeld(store[d].qna_list[i]) <= HINT_CAP

\* C32 (persisted under the request's step): the entry a merge creates or
\* escalates has the step of the request whose hint count was read,
\* whatever step the model's output carries or omits.
C32_RequestStep ==
    [][ Merged =>
          /\ NewResponse.qna_step = NewResponse.request.step
          /\ \E d \in DOMAIN store' : \E i \in DOMAIN store'[d].qna_list :
                /\ store'[d].qna_list[i].step = NewResponse.request.step
                /\ store'[d].qna_list[i].student_query = NewResponse.request.message ]_vars

\* C33 (stored affordances agree with the stored hint count): in every
\* state, whatever the interleaving of the calls, a non-deleted step entry
\* whose active interaction displays More Hint holds fewer than HINT_CAP
\* Hint-level interactions.
C33_MoreHintBelowCap ==
    \A d \in DOMAIN store : \A i \in DOMAIN store[d].qna_list :
        LET q == store[d].qna_list[i]
        IN  ( /\ ~q.deleted
              /\ q.chatbot_interaction # EmptyInteraction
              /\ "More Hint" \in Range(q.chatbot_interaction.buttons_displayed) )
            => HintsHeld(q) < HINT_CAP

\* the served calls of (room, user, step) whose effective level was Hint
ServedAsHint(room_id, user_id, step) ==
    { n \in DOMAIN responses :
        /\ responses[n].success
        /\ responses[n].request.room_id = room_id
        /\ responses[n].request.user_id = user_id
        /\ responses[n].request.step = step
        /\ responses[n]._pathway.response_level = "Hint" }

\* C34 (hint cap under concurrency): whatever the interleaving of the calls
\* for one (room, user, step), at most HINT_CAP of them are served with
\* effective level Hint.
C34_ConcurrentHintCap ==
    \A room_id \in Rooms : \A user_id \in Users : \A step \in Steps \cup {DefaultStep} :
        Cardinality(ServedAsHint(room_id, user_id, step)) <= HINT_CAP

\* C35 (frame of an escalation): a merge that finds a non-deleted entry of
\* its step changes, of that entry, only the student query, the active
\* interaction, the relevant-context fields and the escalation_history, and
\* of its conversation only that entry and last_updated: the entry's step,
\* step name, deleted flag and place in the list, the other entries, the
\* conversation's room id, user id, conversation id, started_at and deleted
\* flag, and every other conversation are as before.
C35_EscalationFrame ==
    [][ Merged =>
          \A d \in DOMAIN store : \A i \in DOMAIN store[d].qna_list :
            ( /\ d \in ConversationsOf(store, NewResponse.request.room_id,
                                       NewResponse.request.user_id)
              /\ \A f \in 1..(d - 1) :
                    f \notin ConversationsOf(store, NewResponse.request.room_id,
                                             NewResponse.request.user_id)
              /\ i \in EntriesOf(store[d], NewResponse.qna_step)
              /\ \A f \in 1..(i - 1) : f \notin EntriesOf(store[d], NewResponse.qna_step) )
            =>
              /\ Len(store') = Len(store)
              /\ \A e \in DOMAIN store : e # d => store'[e] = store[e]
              /\ store'[d].room_id = store[d].room_id
              /\ store'[d].user_id = store[d].user_id
              /\ store'[d].conversation_id = store[d].conversation_id
              /\ store'[d].started_at = store[d].started_at
              /\ store'[d].deleted = store[d].deleted
              /\ DOMAIN store'[d] = DOMAIN store[d]
              /\ \A k \in DOMAIN store[d] :
                    k \notin {"qna_list", "last_updated"} => store'[d][k] = store[d][k]
              /\ store'[d].last_updated # store[d].last_updated
              /\ Len(store'[d].qna_list) = Len(store[d].qna_list)
              /\ \A j \in DOMAIN store[d].qna_list :
                    j # i => store'[d].qna_list[j] = store[d].qna_list[j]
              /\ store'[d].qna_list[i].step = store[d].qna_list[i].step
              /\ store'[d].qna_list[i].step_name = store[d].qna_list[i].step_name
              /\ store'[d].qna_list[i].deleted = store[d].qna_list[i].deleted
              /\ DOMAIN store'[d].qna_list[i] = DOMAIN store[d].qna_list[i]
              /\ \A k \in DOMAIN store[d].qna_list[i] :
                    k \notin {"student_query", "chatbot_interaction", "relevant_info",
                              "relevant_steps", "escalation_history"}
                    => store'[d].qna_list[i][k] = store[d].qna_list[i][k]
              /\ store'[d].qna_list[i].student_query = NewResponse.request.message ]_vars

\* an entry was escalated by a request whose step name is not the entry's:
\* the entry holds an archived interaction, its query is that of a served
\* call, and its step name is not the one that call supplied
C35_Witness ==
    \E d \in DOMAIN store : \E i \in DOMAIN store[d].qna_list :
    \E n \in DOMAIN responses :
        /\ responses[n].success
        /\ Len(store[d].qna_list[i].escalation_history) >= 1
        /\ store[d].qna_list[i].student_query = responses[n].request.message
        /\ store[d].qna_list[i].step_name # responses[n].request.step

======================================================================
